---- MODULE Spec2Model ----
(***************************************************************************)
(* TranscriptAccumulator (src/src/asr/transcript_accumulator.py) as a      *)
(* state machine.                                                          *)
(*                                                                         *)
(* A text is a sequence of one-character strings, a token is a non-empty   *)
(* sequence of characters (TLC cannot take a string apart).  Times are     *)
(* integers in milliseconds: time_fn() returns seconds as a float, the     *)
(* model keeps clock = time_fn() * 1000 and sets float rounding aside.     *)
(* The accumulator object is the record acc; config holds the constructor  *)
(* arguments.  last and trace are history variables: the last public call  *)
(* (with the state before it and what its steps computed) and the calls    *)
(* made so far.                                                            *)
(***************************************************************************)
EXTENDS Integers, Sequences, FiniteSets, TLC

VARIABLES config, acc, clock, last, trace

vars == <<config, acc, clock, last, trace>>

\* Python's None, for segment_started_ms, now_ms and the chosen snapshot index.
None == -1

---------------------------------------------------------------------------
\* Sequences, as Python slices.

Min(a, b) == IF a <= b THEN a ELSE b

Max(a, b) == IF a >= b THEN a ELSE b

\* xs[-n:] for n >= 1 (the slice is the whole list when n >= len(xs)).
LastN(xs, n) == IF n >= Len(xs) THEN xs ELSE SubSeq(xs, Len(xs) - n + 1, Len(xs))

\* xs[:n]
FirstN(xs, n) == SubSeq(xs, 1, Min(n, Len(xs)))

\* xs[n:]
DropN(xs, n) == SubSeq(xs, n + 1, Len(xs))

IsPrefix(xs, ys) == Len(xs) <= Len(ys) /\ SubSeq(ys, 1, Len(xs)) = xs

---------------------------------------------------------------------------
\* Characters.

UpperChars == <<"A", "B", "C", "D", "E", "F", "G", "H", "I", "J", "K", "L", "M", "N", "O", "P", "Q", "R", "S", "T", "U", "V", "W", "X", "Y", "Z">>

LowerChars == <<"a", "b", "c", "d", "e", "f", "g", "h", "i", "j", "k", "l", "m", "n", "o", "p", "q", "r", "s", "t", "u", "v", "w", "x", "y", "z">>

DigitChars == {"0", "1", "2", "3", "4", "5", "6", "7", "8", "9"}

\* [A-Za-z0-9]
IsAlnum(c) == \/ \E i \in DOMAIN UpperChars : UpperChars[i] = c
              \/ \E i \in DOMAIN LowerChars : LowerChars[i] = c
              \/ c \in DigitChars

\* \s
IsSpace(c) == c \in {" ", "\t", "\n", "\r"}

\* \w, over the ASCII characters of the model
IsWordChar(c) == IsAlnum(c) \/ c = "_"

\* str.lower() on one character
LowerChar(c) == IF \E i \in DOMAIN UpperChars : UpperChars[i] = c THEN LowerChars[CHOOSE i \in DOMAIN UpperChars : UpperChars[i] = c] ELSE c

\* t.lower()
lower(tok) == [i \in DOMAIN tok |-> LowerChar(tok[i])]

\* [t.lower() for t in tokens]
lower_all(tokens) == [i \in DOMAIN tokens |-> lower(tokens[i])]

---------------------------------------------------------------------------
\* Tokenization helpers.

\* The last index of the run [A-Za-z0-9]+ that starts at i.
RECURSIVE AlnumRunEnd(_, _)
AlnumRunEnd(text, i) == IF i + 1 <= Len(text) /\ IsAlnum(text[i + 1]) THEN AlnumRunEnd(text, i + 1) ELSE i

\* _TOKENIZER.findall scanning from index i:
\* [A-Za-z0-9]+(?:'[A-Za-z0-9]+)?  |  [^\sA-Za-z0-9]
RECURSIVE tokenize_from(_, _)
tokenize_from(text, i) ==
    IF i > Len(text) THEN <<>>
    ELSE IF IsAlnum(text[i]) THEN
        LET j == AlnumRunEnd(text, i)
            k == IF j + 2 <= Len(text) /\ text[j + 1] = "'" /\ IsAlnum(text[j + 2])
                 THEN AlnumRunEnd(text, j + 2) ELSE j
        IN  <<SubSeq(text, i, k)>> \o tokenize_from(text, k + 1)
    ELSE IF IsSpace(text[i]) THEN tokenize_from(text, i + 1)
    ELSE <<SubSeq(text, i, i)>> \o tokenize_from(text, i + 1)

tokenize(text) == tokenize_from(text, 1)

\* re.match(r"^[^\w\s]$", tok)
IsPunctToken(tok) == Len(tok) = 1 /\ ~IsWordChar(tok[1]) /\ ~IsSpace(tok[1])

\* The list `out` of detokenize after the first n tokens.
RECURSIVE detokenize_out(_, _)
detokenize_out(tokens, n) ==
    IF n = 0 THEN <<>>
    ELSE LET out == detokenize_out(tokens, n - 1)
             tok == tokens[n]
         IN  IF out = <<>> THEN <<tok>>
             ELSE IF IsPunctToken(tok) THEN [out EXCEPT ![Len(out)] = out[Len(out)] \o tok]
             ELSE Append(out, <<" ">> \o tok)

\* "".join(out)
RECURSIVE join(_)
join(out) == IF out = <<>> THEN <<>> ELSE out[1] \o join(Tail(out))

detokenize(tokens) == join(detokenize_out(tokens, Len(tokens)))

RECURSIVE lcp_len_from(_, _, _)
lcp_len_from(a, b, i) == IF i < Len(a) /\ i < Len(b) /\ a[i + 1] = b[i + 1] THEN lcp_len_from(a, b, i + 1) ELSE i

lcp_len(a, b) == lcp_len_from(a, b, 0)

---------------------------------------------------------------------------
\* The accumulator object.  A Token is [text, confirmation_count,
\* first_seen_time, last_seen_time], a Snapshot [tokens, started_ms, expiry_ms,
\* segment_id], a TimedText [ts_ms, tokens].

Token(text, confirmation_count, first_seen_time, last_seen_time) == [text |-> text, confirmation_count |-> confirmation_count, first_seen_time |-> first_seen_time, last_seen_time |-> last_seen_time]

Snapshot(tokens, started_ms, expiry_ms, segment_id) == [tokens |-> tokens, started_ms |-> started_ms, expiry_ms |-> expiry_ms, segment_id |-> segment_id]

TimedText(ts_ms, tokens) == [ts_ms |-> ts_ms, tokens |-> tokens]

\* [t.text for t in tokens]
texts_of(tokens) == [i \in DOMAIN tokens |-> tokens[i].text]

ZeroMetrics == [late_final_hits |-> 0, snapshot_expired_commits |-> 0, orphan_rescues |-> 0, segment_rolls |-> 0, words_lost_pre_fix |-> 0, total_partials |-> 0, total_finals |-> 0, tokens_committed_by_stability |-> 0, tokens_committed_by_final |-> 0, tokens_committed_by_flush |-> 0, dedup_full_blocks |-> 0, dedup_partial_overlaps |-> 0, dedup_tokens_removed |-> 0]

\* The object __init__ leaves.
NewAccumulator == [_stable |-> <<>>, pending_tokens |-> <<>>, awaiting_final |-> <<>>, partial_history |-> <<>>, segment_id |-> 0, segment_started_ms |-> None, _metrics |-> ZeroMetrics]

\* self._metrics[key] += n
count(a, key, n) == [a EXCEPT !._metrics[key] = @ + n]

\* A commit that puts the tokens in front of stable instead of behind it.
commit_front(a, tokens) == [a EXCEPT !._stable = tokens \o @]

\* self._stable.append(token) for each of tokens
commit(a, tokens) == [a EXCEPT !._stable = @ \o tokens]

\* int(self.time_fn() * 1000)
_now_ms == clock

\* now = self._now_ms() if now_ms is None else now_ms
now_of(now_ms) == IF now_ms = None THEN _now_ms ELSE now_ms

_ensure_segment_started(a, now_ms) == IF a.segment_started_ms = None THEN [a EXCEPT !.segment_started_ms = now_of(now_ms)] ELSE a

\* max_tail of _build_context_for_final
max_tail == 64

stable_text(a) == detokenize(a._stable)

\* An event that never reports a final.
display_event_not_final(a, is_final) == [type |-> "display", stable_text |-> stable_text(a), partial_suffix |-> detokenize(texts_of(a.pending_tokens)), is_final |-> FALSE, segment_id |-> a.segment_id, metadata |-> [pending_tokens |-> Len(a.pending_tokens), awaiting_snapshots |-> Len(a.awaiting_final), stable_word_count |-> Len(a._stable)]]

build_display_event(a, is_final) == [type |-> "display", stable_text |-> stable_text(a), partial_suffix |-> detokenize(texts_of(a.pending_tokens)), is_final |-> is_final, segment_id |-> a.segment_id, metadata |-> [pending_tokens |-> Len(a.pending_tokens), awaiting_snapshots |-> Len(a.awaiting_final), stable_word_count |-> Len(a._stable)]]

\* while self.partial_history and self.partial_history[0].ts_ms < cutoff: popleft()
RECURSIVE drop_older(_, _)
drop_older(history, cutoff) == IF history # <<>> /\ history[1].ts_ms < cutoff THEN drop_older(Tail(history), cutoff) ELSE history

_record_partial_history(a, tokens, now_ms) == [a EXCEPT !.partial_history = drop_older(Append(@, TimedText(now_ms, tokens)), now_ms - config.partial_history_window_ms)]

---------------------------------------------------------------------------
\* Deduplication.

\* A variant that finds the block only at the end of recent.
is_sublist_at_end(new, recent) == LastN(recent, Len(new)) = new

\* Some i in range(len(recent) - len(new) + 1) has recent[i:i+len(new)] == new.
is_sublist(new, recent) == \E i \in 0..(Len(recent) - Len(new)) : SubSeq(recent, i + 1, i + Len(new)) = new

\* The overlap_len in 1..min(len(new), len(recent)) with
\* recent[-overlap_len:] == new[:overlap_len]
overlaps(new, recent) == {k \in 1..Min(Len(new), Len(recent)) : LastN(recent, k) = FirstN(new, k)}

\* An overlap search that stops at the shortest overlap.
shortest_overlap(new, recent) == IF overlaps(new, recent) = {} THEN 0 ELSE CHOOSE k \in overlaps(new, recent) : \A j \in overlaps(new, recent) : k <= j

\* best_overlap: the last one the loop sees, 0 when there is none.
best_overlap(new, recent) == IF overlaps(new, recent) = {} THEN 0 ELSE CHOOSE k \in overlaps(new, recent) : \A j \in overlaps(new, recent) : j <= k

\* A filter without the full-duplicate rule.
dedup_filter_boundary_only(a, new_tokens, new_text_lower, recent_text_lower) ==
    IF best_overlap(new_text_lower, recent_text_lower) > 0
    THEN [tokens |-> DropN(new_tokens, best_overlap(new_text_lower, recent_text_lower)), acc |-> count(count(a, "dedup_partial_overlaps", 1), "dedup_tokens_removed", best_overlap(new_text_lower, recent_text_lower))]
    ELSE [tokens |-> new_tokens, acc |-> a]

\* Lines 293-315, on the lowercased lists.
dedup_filter(a, new_tokens, new_text_lower, recent_text_lower) ==
    IF Len(new_text_lower) <= Len(recent_text_lower) /\ is_sublist(new_text_lower, recent_text_lower)
    THEN [tokens |-> <<>>, acc |-> count(count(a, "dedup_full_blocks", 1), "dedup_tokens_removed", Len(new_tokens))]
    ELSE IF best_overlap(new_text_lower, recent_text_lower) > 0
    THEN [tokens |-> DropN(new_tokens, best_overlap(new_text_lower, recent_text_lower)), acc |-> count(count(a, "dedup_partial_overlaps", 1), "dedup_tokens_removed", best_overlap(new_text_lower, recent_text_lower))]
    ELSE [tokens |-> new_tokens, acc |-> a]

\* A deduplicator that ignores the dedup_enabled switch.
dedup_always(a, new_tokens) ==
    IF new_tokens = <<>> \/ a._stable = <<>> THEN [tokens |-> new_tokens, acc |-> a]
    ELSE dedup_filter(a, new_tokens, lower_all(new_tokens), lower_all(LastN(a._stable, Max(config.dedup_window_size, Len(new_tokens) * 3))))

\* Returns [tokens: the filtered list, acc: the object with its counters].
_deduplicate_before_commit(a, new_tokens) ==
    IF ~config.dedup_enabled \/ new_tokens = <<>> \/ a._stable = <<>> THEN [tokens |-> new_tokens, acc |-> a]
    ELSE dedup_filter(a, new_tokens, lower_all(new_tokens), lower_all(LastN(a._stable, Max(config.dedup_window_size, Len(new_tokens) * 3))))

\* for token in filtered: self._stable.append(token).  Returns [acc, n: the
\* number appended].
commit_filtered(d) == [acc |-> commit(d.acc, d.tokens), n |-> Len(d.tokens)]

\* filtered = self._deduplicate_before_commit(tokens), then the appends.
dedup_and_commit(a, tokens) == commit_filtered(_deduplicate_before_commit(a, tokens))

---------------------------------------------------------------------------
\* Pending and snapshots.

\* The number of leading pending tokens the while loop pops: those with
\* confirmation_count >= K or age_ms >= T_ms, age read from time_fn.
\* A walk that promotes only past K: confirmation_count > K.
RECURSIVE ready_len_past_K(_, _)
ready_len_past_K(pending, i) ==
    IF i < Len(pending) /\ (pending[i + 1].confirmation_count > config.K \/ (clock - pending[i + 1].first_seen_time) >= config.T_ms)
    THEN ready_len_past_K(pending, i + 1) ELSE i

RECURSIVE ready_len(_, _)
ready_len(pending, i) ==
    IF i < Len(pending) /\ (pending[i + 1].confirmation_count >= config.K \/ (clock - pending[i + 1].first_seen_time) >= config.T_ms)
    THEN ready_len(pending, i + 1) ELSE i

\* A count that tests the T rule before the K rule.
stability_count_after_T(popped) == Cardinality({i \in DOMAIN popped : popped[i].confirmation_count >= config.K /\ (clock - popped[i].first_seen_time) < config.T_ms})

\* The popped tokens the K rule took (it is tested first).
stability_count(popped) == Cardinality({i \in DOMAIN popped : popped[i].confirmation_count >= config.K})

\* A pop that takes its n tokens from the right end of pending.
pop_ready_right(a, n) == count(count([a EXCEPT !.pending_tokens = FirstN(@, Len(@) - n)], "tokens_committed_by_stability", stability_count(FirstN(a.pending_tokens, n))), "tokens_committed_by_flush", n - stability_count(FirstN(a.pending_tokens, n)))

\* The object after the while loop popped n tokens.
pop_ready(a, n) == count(count([a EXCEPT !.pending_tokens = DropN(@, n)], "tokens_committed_by_stability", stability_count(FirstN(a.pending_tokens, n))), "tokens_committed_by_flush", n - stability_count(FirstN(a.pending_tokens, n)))

promoted_batch(c, batch) == [acc |-> c.acc, promoted |-> c.n, batch |-> batch]

\* A promotion that appends its batch without the deduplicator.
promote_undeduplicated(a, now_ms) ==
    IF ready_len(a.pending_tokens, 0) = 0 THEN [acc |-> a, promoted |-> 0, batch |-> <<>>]
    ELSE promoted_batch(commit_filtered([tokens |-> texts_of(FirstN(a.pending_tokens, ready_len(a.pending_tokens, 0))), acc |-> pop_ready(a, ready_len(a.pending_tokens, 0))]), texts_of(FirstN(a.pending_tokens, ready_len(a.pending_tokens, 0))))

\* Returns [acc, promoted, batch: the texts popped].
_promote_leftmost_ready(a, now_ms) ==
    IF ready_len(a.pending_tokens, 0) = 0 THEN [acc |-> a, promoted |-> 0, batch |-> <<>>]
    ELSE promoted_batch(dedup_and_commit(pop_ready(a, ready_len(a.pending_tokens, 0)), texts_of(FirstN(a.pending_tokens, ready_len(a.pending_tokens, 0)))), texts_of(FirstN(a.pending_tokens, ready_len(a.pending_tokens, 0))))

\* A snapshot that is due at once: its expiry leaves out the TTL.
snapshot_without_ttl(a, now_ms) ==
    IF a.pending_tokens = <<>> THEN a
    ELSE [a EXCEPT !.awaiting_final = Append(@, Snapshot(a.pending_tokens, now_ms, now_ms, a.segment_id))]

_snapshot_pending(a, now_ms) ==
    IF a.pending_tokens = <<>> THEN a
    ELSE [a EXCEPT !.awaiting_final = Append(@, Snapshot(a.pending_tokens, now_ms, now_ms + config.awaiting_final_ttl_ms, a.segment_id))]

\* self._metrics["snapshot_expired_commits"] += rescued
expired_commit(c) == count(c.acc, "snapshot_expired_commits", c.n)

\* An expiry that waits until now is strictly past expiry_ms.
RECURSIVE expire_strictly_after(_, _)
expire_strictly_after(a, now_ms) ==
    IF a.awaiting_final # <<>> /\ a.awaiting_final[1].expiry_ms < now_ms
    THEN expire_strictly_after(expired_commit(dedup_and_commit([a EXCEPT !.awaiting_final = Tail(@)], texts_of(a.awaiting_final[1].tokens))), now_ms)
    ELSE a

RECURSIVE _expire_snapshots(_, _)
_expire_snapshots(a, now_ms) ==
    IF a.awaiting_final # <<>> /\ a.awaiting_final[1].expiry_ms <= now_ms
    THEN _expire_snapshots(expired_commit(dedup_and_commit([a EXCEPT !.awaiting_final = Tail(@)], texts_of(a.awaiting_final[1].tokens))), now_ms)
    ELSE a

\* A break that keeps the segment it is in.
roll_same_segment(a, now) == count([a EXCEPT !.pending_tokens = <<>>, !.segment_started_ms = now], "segment_rolls", 1)

\* Lines 537-542: clear pending, roll the segment counters.
roll_segment(a, now) == count([a EXCEPT !.pending_tokens = <<>>, !.segment_id = @ + 1, !.segment_started_ms = now], "segment_rolls", 1)

\* A break that puts its snapshot at the front of the queue.
force_segment_break_front(a, now_ms) ==
    IF a.pending_tokens = <<>> THEN roll_segment(a, now_of(now_ms))
    ELSE roll_segment([a EXCEPT !.awaiting_final = <<Snapshot(a.pending_tokens, now_of(now_ms), now_of(now_ms) + config.awaiting_final_ttl_ms, a.segment_id)>> \o @], now_of(now_ms))

force_segment_break(a, now_ms) == roll_segment(_snapshot_pending(a, now_of(now_ms)), now_of(now_ms))

reset(a) == [a EXCEPT !._stable = <<>>, !.pending_tokens = <<>>, !.awaiting_final = <<>>, !.partial_history = <<>>, !.segment_id = 0, !.segment_started_ms = None]

---------------------------------------------------------------------------
\* Overlap and reconciliation.

RECURSIVE longest_from(_, _, _)
longest_from(context, final_tokens, cand) ==
    IF cand = 0 THEN 0
    ELSE IF lower_all(LastN(context, cand)) = lower_all(FirstN(final_tokens, cand)) THEN cand
    ELSE longest_from(context, final_tokens, cand - 1)

_longest_suffix_prefix(context, final_tokens) == longest_from(context, final_tokens, Min(Len(context), Len(final_tokens)))

\* st_tail = self._stable[-max_tail:]
st_tail(a) == LastN(a._stable, max_tail)

\* One candidate of the loop: (ctx, snap_idx, len_st, len_snap, len_pend, overlap).
\* snap_idx is Python's 0-based index: the snapshot is awaiting_final[snap_idx + 1].
candidate(ctx, snap_idx, len_st, len_snap, len_pend, final_tokens) == [context |-> ctx, snap_idx |-> snap_idx, len_st_tail |-> len_st, len_snap |-> len_snap, len_pend |-> len_pend, overlap |-> _longest_suffix_prefix(ctx, final_tokens)]

snapshot_candidate(a, final_tokens, snap_idx) == candidate(st_tail(a) \o texts_of(a.awaiting_final[snap_idx + 1].tokens) \o texts_of(a.pending_tokens), snap_idx, Len(st_tail(a)), Len(a.awaiting_final[snap_idx + 1].tokens), Len(a.pending_tokens), final_tokens)

\* A comparison that lets a later candidate replace an equal one.
better_or_equal(cand, best) == IF cand.overlap >= best.overlap THEN cand ELSE best

\* if m > best[5]: best = ...
better(cand, best) == IF cand.overlap > best.overlap THEN cand ELSE best

\* A loop that tries the most recent snapshot only.
try_newest_only(a, final_tokens, rev_idx, best) == IF a.awaiting_final = <<>> THEN best ELSE better(snapshot_candidate(a, final_tokens, Len(a.awaiting_final) - 1), best)

\* The loop over enumerate(reversed(self.awaiting_final)), from rev_idx on.
RECURSIVE try_snapshots(_, _, _, _)
try_snapshots(a, final_tokens, rev_idx, best) ==
    IF rev_idx >= Len(a.awaiting_final) THEN best
    ELSE try_snapshots(a, final_tokens, rev_idx + 1, better(snapshot_candidate(a, final_tokens, Len(a.awaiting_final) - 1 - rev_idx), best))

_build_context_for_final(a, final_tokens) == better(candidate(st_tail(a) \o texts_of(a.pending_tokens), None, Len(st_tail(a)), 0, Len(a.pending_tokens), final_tokens), try_snapshots(a, final_tokens, 0, [context |-> <<>>, snap_idx |-> None, len_st_tail |-> 0, len_snap |-> 0, len_pend |-> 0, overlap |-> 0]))

\* deque.remove(value): the first element equal to value goes.
RECURSIVE remove_first(_, _)
remove_first(xs, value) == IF xs = <<>> THEN xs ELSE IF xs[1] = value THEN Tail(xs) ELSE <<xs[1]>> \o remove_first(Tail(xs), value)

\* A left_count that takes the first token of the overlap region as well.
left_count_through_overlap(b, m) == Min(b.len_st_tail + b.len_snap - 1, Len(b.context) - m) - b.len_st_tail + 1

\* left_count = left_end - snap_start + 1, with snap_start = len_st_tail,
\* snap_end = len_st_tail + len_snap - 1, overlap_start = c_len - m and
\* left_end = min(snap_end, overlap_start - 1).
left_count_of(b, m) == Min(b.len_st_tail + b.len_snap - 1, Len(b.context) - m - 1) - b.len_st_tail + 1

\* self.awaiting_final[snap_idx].tokens = ...tokens[left_count:]
trim_snapshot(c, pos, left_count) == [acc |-> [c.acc EXCEPT !.awaiting_final[pos].tokens = DropN(@, left_count)], rescued |-> c.n]

\* Lines 475-492: if left_end >= snap_start, the orphans are committed and
\* leave the snapshot at position pos.
rescue_left(a, pos, left_count) ==
    IF left_count >= 1 THEN trim_snapshot(dedup_and_commit(a, texts_of(FirstN(a.awaiting_final[pos].tokens, left_count))), pos, left_count)
    ELSE [acc |-> a, rescued |-> 0]

\* A rescue that removes the chosen snapshot whatever is left in it.
drop_chosen(r, pos) == [r EXCEPT !.acc.awaiting_final = remove_first(@, r.acc.awaiting_final[pos])]

\* Lines 494-496
drop_if_consumed(r, pos) == IF r.acc.awaiting_final[pos].tokens = <<>> THEN [r EXCEPT !.acc.awaiting_final = remove_first(@, r.acc.awaiting_final[pos])] ELSE r

\* Lines 498-501
count_rescue(r) == IF r.rescued > 0 THEN [r EXCEPT !.acc = count(count(count(@, "orphan_rescues", r.rescued), "late_final_hits", 1), "tokens_committed_by_final", r.rescued)] ELSE r

\* A rescue that leaves the chosen snapshot in the queue when it emptied it.
rescue_keep_emptied(a, b, m) ==
    IF b.snap_idx # None /\ b.len_snap > 0
    THEN count_rescue(rescue_left(a, b.snap_idx + 1, left_count_of(b, m)))
    ELSE [acc |-> a, rescued |-> 0]

\* Lines 463-503 of add_final: the rescue of the chosen snapshot's tokens left
\* of the overlap.  Returns [acc, rescued].
rescue_orphans(a, b, m) ==
    IF b.snap_idx # None /\ b.len_snap > 0
    THEN count_rescue(drop_if_consumed(rescue_left(a, b.snap_idx + 1, left_count_of(b, m)), b.snap_idx + 1))
    ELSE [acc |-> a, rescued |-> 0]

\* A suffix append that leaves tokens_committed_by_final as it was.
final_commit_uncounted(c) == c.acc

\* self._metrics["tokens_committed_by_final"] += len(filtered_append)
final_commit(c) == count(c.acc, "tokens_committed_by_final", c.n)

\* A suffix append that bypasses the deduplicator.
append_suffix_unfiltered(a, to_append) == IF to_append # <<>> THEN count(commit(a, to_append), "tokens_committed_by_final", Len(to_append)) ELSE a

\* Lines 505-513 of add_final.
append_suffix(a, to_append) == IF to_append # <<>> THEN final_commit(dedup_and_commit(a, to_append)) ELSE a

---------------------------------------------------------------------------
\* The public operations.  add_partial and add_final return the object they
\* leave (acc), the event they return (event) and what their steps computed.

\* An entry that leaves the snapshots alone.
enter_without_expiry(a, counter, now) == _ensure_segment_started(count(a, counter, 1), now)

\* Lines 380-383 and 442-445: count the call, start the segment, expire.
enter(a, counter, now) == _expire_snapshots(_ensure_segment_started(count(a, counter, 1), now), now)

\* An alignment that keeps the LCP tokens without confirming them.
unconfirmed_prefix(pending, l) == [i \in 1..l |-> [pending[i] EXCEPT !.last_seen_time = clock]]

\* A new suffix whose tokens enter with no confirmation yet.
fresh_suffix_uncounted(cur_tokens, l) == [i \in 1..(Len(cur_tokens) - l) |-> Token(cur_tokens[l + i], 0, clock, clock)]

\* Lines 399-402: the LCP tokens are confirmed.
confirmed_prefix(pending, l) == [i \in 1..l |-> [pending[i] EXCEPT !.confirmation_count = @ + 1, !.last_seen_time = clock]]

\* Lines 415-417: the new suffix enters as fresh tokens.
fresh_suffix(cur_tokens, l) == [i \in 1..(Len(cur_tokens) - l) |-> Token(cur_tokens[l + i], 1, clock, clock)]

\* An alignment that keeps the old tokens beyond the LCP.
align_keep_tail(a, cur_tokens, l) == [a EXCEPT !.pending_tokens = confirmed_prefix(@, l) \o DropN(@, l) \o fresh_suffix(cur_tokens, l)]

\* Lines 391-417: align pending with the partial by LCP.
align(a, cur_tokens, l) == [a EXCEPT !.pending_tokens = confirmed_prefix(@, l) \o fresh_suffix(cur_tokens, l)]

\* A timeout test that waits until the segment is older than max_segment_ms.
timed_out_strictly_after(a, now) == a.segment_started_ms # None /\ (now - a.segment_started_ms) > config.max_segment_ms

\* Lines 424-427: the segment timeout.
timed_out(a, now) == a.segment_started_ms # None /\ (now - a.segment_started_ms) >= config.max_segment_ms

partial_result(expired, aligned, p, left, cur_tokens, now) == [acc |-> left, event |-> build_display_event(left, FALSE), now |-> now, tokens |-> cur_tokens, expired |-> expired, aligned |-> aligned, batch |-> p.batch, promoted |-> p.promoted, timed_out |-> timed_out(p.acc, now)]

partial_promoted(expired, aligned, p, cur_tokens, now) == partial_result(expired, aligned, p, IF timed_out(p.acc, now) THEN force_segment_break(p.acc, now) ELSE p.acc, cur_tokens, now)

partial_aligned(expired, aligned, cur_tokens, now) == partial_promoted(expired, aligned, _promote_leftmost_ready(aligned, now), cur_tokens, now)

\* An alignment that puts the new suffix in front of the confirmed tokens.
partial_entered_suffix_first(expired, recorded, cur_tokens, now) == partial_aligned(expired, [recorded EXCEPT !.pending_tokens = fresh_suffix(cur_tokens, lcp_len(texts_of(recorded.pending_tokens), cur_tokens)) \o confirmed_prefix(@, lcp_len(texts_of(recorded.pending_tokens), cur_tokens))], cur_tokens, now)

partial_entered(expired, recorded, cur_tokens, now) == partial_aligned(expired, align(recorded, cur_tokens, lcp_len(texts_of(recorded.pending_tokens), cur_tokens)), cur_tokens, now)

partial_tokens(expired, cur_tokens, now) == partial_entered(expired, _record_partial_history(expired, cur_tokens, now), cur_tokens, now)

add_partial(a, text, now_ms) == partial_tokens(enter(a, "total_partials", now_of(now_ms)), tokenize(text), now_of(now_ms))

\* A final that stays in its segment.
close_same_segment(a, now) == [a EXCEPT !.pending_tokens = <<>>, !.segment_started_ms = now]

\* Lines 515-522: the final closes the utterance.
close_utterance(a, now) == [a EXCEPT !.pending_tokens = <<>>, !.segment_id = @ + 1, !.segment_started_ms = now]

\* A final that leaves its own tokens in pending when it returns.
final_result_pending(expired, final_tokens, m, snap_idx, r, left, now) == [acc |-> [left EXCEPT !.pending_tokens = [i \in DOMAIN final_tokens |-> Token(final_tokens[i], 1, clock, clock)]], event |-> build_display_event(left, TRUE), now |-> now, tokens |-> final_tokens, expired |-> expired, m |-> m, snap_idx |-> snap_idx, rescued |-> r.rescued, after_rescue |-> r.acc]

final_result(expired, final_tokens, m, snap_idx, r, left, now) == [acc |-> left, event |-> build_display_event(left, TRUE), now |-> now, tokens |-> final_tokens, expired |-> expired, m |-> m, snap_idx |-> snap_idx, rescued |-> r.rescued, after_rescue |-> r.acc]

\* A final whose whole token list is handed to the suffix commit.
final_rescued_whole(expired, final_tokens, m, snap_idx, r, now) == final_result(expired, final_tokens, m, snap_idx, r, close_utterance(append_suffix(r.acc, final_tokens), now), now)

final_rescued(expired, final_tokens, m, snap_idx, r, now) == final_result(expired, final_tokens, m, snap_idx, r, close_utterance(append_suffix(r.acc, DropN(final_tokens, m)), now), now)

final_overlap(expired, final_tokens, b, m, now) == final_rescued(expired, final_tokens, m, b.snap_idx, rescue_orphans(expired, b, m), now)

final_context(expired, final_tokens, b, now) == final_overlap(expired, final_tokens, b, _longest_suffix_prefix(b.context, final_tokens), now)

\* A final without tokens that returns at once, without the segment break.
final_tokens_of_unbroken(expired, final_tokens, now) ==
    IF final_tokens = <<>>
    THEN final_result(expired, final_tokens, 0, None, [acc |-> expired, rescued |-> 0], expired, now)
    ELSE final_context(expired, final_tokens, _build_context_for_final(expired, final_tokens), now)

final_tokens_of(expired, final_tokens, now) ==
    IF final_tokens = <<>>
    THEN final_result(expired, final_tokens, 0, None, [acc |-> expired, rescued |-> 0], force_segment_break(expired, now), now)
    ELSE final_context(expired, final_tokens, _build_context_for_final(expired, final_tokens), now)

add_final(a, text, now_ms) == final_tokens_of(enter(a, "total_finals", now_of(now_ms)), tokenize(text), now_of(now_ms))

---------------------------------------------------------------------------
\* The environment: constructor arguments, input texts, the clock.

\* The calls of one behaviour, and how far the clock runs.
MaxCalls == 3

MaxClock == 3

\* Constructor arguments with short times, so that T-timeout (1), snapshot
\* expiry (2) and segment timeout (3) all happen within MaxClock.
SmallConfig(k, d) == [K |-> k, T_ms |-> 1, max_segment_ms |-> 3, awaiting_final_ttl_ms |-> 2, partial_history_window_ms |-> 1, dedup_enabled |-> d, dedup_window_size |-> 2]

Configs == {SmallConfig(1, TRUE), SmallConfig(2, TRUE), SmallConfig(3, TRUE), SmallConfig(2, FALSE)}

\* "", "a b", "b c"
PartialTexts == {<<>>, <<"a", " ", "b">>, <<"b", " ", "c">>}

\* "", "a b", "A b", "b c"
FinalTexts == {<<>>, <<"a", " ", "b">>, <<"A", " ", "b">>, <<"b", " ", "c">>}

\* now_ms is left out, as every caller in the repository does.
NowInputs == {None}

Init ==
    /\ config \in Configs
    /\ acc = NewAccumulator
    /\ clock = 0
    /\ last = [op |-> "init", text |-> <<>>, now_ms |-> None, now |-> 0, at |-> 0, pre |-> NewAccumulator, run |-> [acc |-> NewAccumulator]]
    /\ trace = <<>>

\* What a call leaves in the history variables.
Called(op, text, now_ms, run) ==
    /\ last' = [op |-> op, text |-> text, now_ms |-> now_ms, now |-> now_of(now_ms), at |-> clock, pre |-> acc, run |-> run]
    /\ trace' = Append(trace, [op |-> op, text |-> text, now |-> now_of(now_ms), at |-> clock])
    /\ UNCHANGED <<config, clock>>

\* The clock is monotonic, and so are the times the calls are made at.
CallAllowed(now_ms) == Len(trace) < MaxCalls /\ now_of(now_ms) >= last.now

AddPartialCall(text, now_ms) ==
    /\ acc' = add_partial(acc, text, now_ms).acc
    /\ Called("add_partial", text, now_ms, add_partial(acc, text, now_ms))

AddFinalCall(text, now_ms) ==
    /\ acc' = add_final(acc, text, now_ms).acc
    /\ Called("add_final", text, now_ms, add_final(acc, text, now_ms))

ForceSegmentBreakCall(now_ms) ==
    /\ acc' = force_segment_break(acc, now_ms)
    /\ Called("force_segment_break", <<>>, now_ms, [acc |-> force_segment_break(acc, now_ms)])

ResetCall ==
    /\ acc' = reset(acc)
    /\ Called("reset", <<>>, None, [acc |-> reset(acc)])

AddPartial == \E text \in PartialTexts, now_ms \in NowInputs : CallAllowed(now_ms) /\ AddPartialCall(text, now_ms)

AddFinal == \E text \in FinalTexts, now_ms \in NowInputs : CallAllowed(now_ms) /\ AddFinalCall(text, now_ms)

ForceSegmentBreak == \E now_ms \in NowInputs : CallAllowed(now_ms) /\ ForceSegmentBreakCall(now_ms)

Reset == CallAllowed(None) /\ ResetCall

Tick == clock < MaxClock /\ trace # <<>> /\ Len(trace) < MaxCalls /\ clock' = clock + 1 /\ UNCHANGED <<config, acc, last, trace>>

Next == AddPartial \/ AddFinal \/ ForceSegmentBreak \/ Reset \/ Tick

Spec == Init /\ [][Next]_vars

---------------------------------------------------------------------------
\* What the properties below are stated with.

\* tok occurs in tokens, compared case-insensitively.
InCI(tok, tokens) == \E i \in DOMAIN tokens : lower(tokens[i]) = lower(tok)

AllInCI(toks, tokens) == \A i \in DOMAIN toks : InCI(toks[i], tokens)

\* xs is ys with some elements left out.
RECURSIVE IsSubseq(_, _)
IsSubseq(xs, ys) ==
    IF xs = <<>> THEN TRUE
    ELSE IF ys = <<>> THEN FALSE
    ELSE IF xs[1] = ys[1] THEN IsSubseq(Tail(xs), Tail(ys))
    ELSE IsSubseq(xs, Tail(ys))

IsSuffix(xs, ys) == Len(xs) <= Len(ys) /\ LastN(ys, Len(xs)) = xs

\* What post holds after its prefix pre.
Grown(pre, post) == SubSeq(post, Len(pre) + 1, Len(post))

RemoveAt(xs, i) == SubSeq(xs, 1, i - 1) \o SubSeq(xs, i + 1, Len(xs))

NoResetCalled == \A i \in DOMAIN trace : trace[i].op # "reset"

\* The spoken stream of the small inputs: pairwise-distinct words.
Stream == <<<<"a">>, <<"b">>, <<"c">>>>

\* tokens is a non-empty contiguous window of the stream.
IsWindow(tokens) == tokens # <<>> /\ \E e \in Len(tokens)..Len(Stream) : SubSeq(Stream, e - Len(tokens) + 1, e) = tokens

\* The stream position of the window's last word.
RightEdge(tokens) == CHOOSE e \in Len(tokens)..Len(Stream) : SubSeq(Stream, e - Len(tokens) + 1, e) = tokens

\* The stream position of a word.
StreamPos(tok) == CHOOSE i \in DOMAIN Stream : Stream[i] = tok

IsSpeech(i) == trace[i].op \in {"add_partial", "add_final"}

\* The calls so far fed the stream: every partial a window of it whose right
\* edge never moves backwards, every final a contiguous sub-sequence of it.
StreamInputs ==
    /\ NoResetCalled
    /\ \A i \in DOMAIN trace : IsSpeech(i) => IsWindow(tokenize(trace[i].text))
    /\ \A i, j \in DOMAIN trace : (i < j /\ trace[i].op = "add_partial" /\ trace[j].op = "add_partial") => RightEdge(tokenize(trace[i].text)) <= RightEdge(tokenize(trace[j].text))

\* C1: when add_final returns for a text with tokens, after any calls of
\* add_partial, add_final and force_segment_break, every token of the final
\* occurs in stable, compared case-insensitively.
C1_FinalWordsReachStable == (last.op = "add_final" /\ NoResetCalled) => AllInCI(last.run.tokens, acc._stable)

\* C2 (I1): the stable list before a call of add_partial, add_final or
\* force_segment_break is a prefix of the stable list after it.
C2_StableMonotonic == last.op \in {"add_partial", "add_final", "force_segment_break"} => IsPrefix(last.pre._stable, acc._stable)

\* A call appended to a stable list that already held tokens.
C2_Witness == last.op \in {"add_partial", "add_final"} /\ last.pre._stable # <<>> /\ Len(acc._stable) > Len(last.pre._stable)

\* C3 (I2): when the calls fed the stream, the words of stable are words of
\* the stream at increasing stream positions.
C3_SpokenOrder ==
    StreamInputs =>
        /\ \A i \in DOMAIN acc._stable : \E p \in DOMAIN Stream : Stream[p] = acc._stable[i]
        /\ \A i, j \in DOMAIN acc._stable : i < j => StreamPos(acc._stable[i]) < StreamPos(acc._stable[j])

\* C4: with deduplication enabled, when the calls fed the stream, no word
\* occurs more than once in stable.
C4_ExactlyOnce == (config.dedup_enabled /\ StreamInputs) => \A i, j \in DOMAIN acc._stable : i # j => acc._stable[i] # acc._stable[j]

\* What force_segment_break(now) makes of the object pre: stable unchanged,
\* pending empty, and one new snapshot of the pending texts, due at
\* now + awaiting_final_ttl_ms, exactly when pending was not empty.
Shelved(pre, post, now) ==
    /\ post._stable = pre._stable
    /\ post.pending_tokens = <<>>
    /\ IF pre.pending_tokens = <<>> THEN post.awaiting_final = pre.awaiting_final
       ELSE /\ Len(post.awaiting_final) = Len(pre.awaiting_final) + 1
            /\ FirstN(post.awaiting_final, Len(pre.awaiting_final)) = pre.awaiting_final
            /\ texts_of(post.awaiting_final[Len(post.awaiting_final)].tokens) = texts_of(pre.pending_tokens)
            /\ post.awaiting_final[Len(post.awaiting_final)].expiry_ms = now + config.awaiting_final_ttl_ms

\* C5: a segment break, called directly or by an empty final, shelves pending
\* in one snapshot with expiry now + TTL, empties pending and leaves stable.
C5_BreakShelvesPending ==
    /\ last.op = "force_segment_break" => Shelved(last.pre, acc, last.now)
    /\ (last.op = "add_final" /\ last.run.tokens = <<>>) => Shelved(last.run.expired, acc, last.now)

\* A break found tokens in pending.
C5_Witness == last.op = "force_segment_break" /\ last.pre.pending_tokens # <<>> /\ acc.awaiting_final # <<>>

\* The token texts of the snapshots with expiry_ms <= now, in deque order.
RECURSIVE due_texts(_, _)
due_texts(snaps, now) == IF snaps = <<>> THEN <<>> ELSE (IF snaps[1].expiry_ms <= now THEN texts_of(snaps[1].tokens) ELSE <<>>) \o due_texts(Tail(snaps), now)

DueTexts == due_texts(last.pre.awaiting_final, last.now)

\* What the expiry step of the last call appended to stable.
ExpiredChunk == Grown(last.pre._stable, last.run.expired._stable)

\* C6: after add_partial or add_final no snapshot with expiry_ms <= now is
\* left; the texts of the due snapshots, less what deduplication removes, are
\* appended to stable in snapshot order before the call touches pending or
\* appends anything else, and snapshot_expired_commits grows by the number
\* of tokens appended.
C6_ExpiryAutoCommit ==
    last.op \in {"add_partial", "add_final"} =>
        /\ \A i \in DOMAIN acc.awaiting_final : acc.awaiting_final[i].expiry_ms > last.now
        /\ IsPrefix(last.pre._stable, last.run.expired._stable)
        /\ IsPrefix(last.run.expired._stable, acc._stable)
        /\ last.run.expired.pending_tokens = last.pre.pending_tokens
        /\ IsSubseq(ExpiredChunk, DueTexts)
        /\ AllInCI(DueTexts, last.run.expired._stable)
        /\ ~config.dedup_enabled => ExpiredChunk = DueTexts
        /\ acc._metrics.snapshot_expired_commits - last.pre._metrics.snapshot_expired_commits = Len(ExpiredChunk)

\* A call found a due snapshot and committed its tokens.
C6_Witness == last.op \in {"add_partial", "add_final"} /\ DueTexts # <<>> /\ ExpiredChunk = DueTexts /\ Len(acc.awaiting_final) < Len(last.pre.awaiting_final)

\* The snapshot the last add_final selected, as the expiry step left it.
Chosen == last.run.expired.awaiting_final[last.run.snap_idx + 1]

\* How many tokens of the chosen snapshot lie strictly left of the overlap
\* region, the last m tokens of stable tail + snapshot + pending.
OrphanCount == Max(0, Min(Len(Chosen.tokens), Len(Chosen.tokens) + Len(last.run.expired.pending_tokens) - last.run.m))

Orphans == texts_of(FirstN(Chosen.tokens, OrphanCount))

\* What the rescue step of the last add_final appended to stable.
RescuedChunk == Grown(last.run.expired._stable, last.run.after_rescue._stable)

\* awaiting_final with the orphans gone from the chosen snapshot, and the
\* snapshot gone when that empties it.
SnapshotsAfterRescue ==
    IF OrphanCount = Len(Chosen.tokens) THEN RemoveAt(last.run.expired.awaiting_final, last.run.snap_idx + 1)
    ELSE [last.run.expired.awaiting_final EXCEPT ![last.run.snap_idx + 1].tokens = DropN(@, OrphanCount)]

\* C7: when add_final selects a snapshot, its tokens left of the overlap
\* leave the front of the snapshot and are appended to stable, less what
\* deduplication removes, before the final's suffix after the overlap is; the
\* snapshot is removed when it becomes empty; every such token is in stable.
C7_OrphanRescue ==
    (last.op = "add_final" /\ last.run.snap_idx # None) =>
        /\ IsPrefix(last.run.expired._stable, last.run.after_rescue._stable)
        /\ IsSuffix(RescuedChunk, Orphans)
        /\ ~config.dedup_enabled => RescuedChunk = Orphans
        /\ AllInCI(Orphans, last.run.after_rescue._stable)
        /\ last.run.after_rescue.awaiting_final = SnapshotsAfterRescue
        /\ acc.awaiting_final = SnapshotsAfterRescue
        /\ IsPrefix(last.run.after_rescue._stable, acc._stable)
        /\ IsSuffix(Grown(last.run.after_rescue._stable, acc._stable), DropN(last.run.tokens, last.run.m))
        /\ AllInCI(Orphans, acc._stable)

\* A late final rescued orphans and then appended a suffix of its own.
C7_Witness == last.op = "add_final" /\ last.run.snap_idx # None /\ RescuedChunk # <<>> /\ Len(acc._stable) > Len(last.run.after_rescue._stable)

\* The confirmation_count the first token of the last partial has after
\* alignment.
FrontCountAfter == IF last.pre.pending_tokens # <<>> /\ last.pre.pending_tokens[1].text = last.run.tokens[1] THEN last.pre.pending_tokens[1].confirmation_count + 1 ELSE 1

\* The front token's confirmation_count reaches K in the last call.
ReachesK == last.op = "add_partial" /\ last.run.tokens # <<>> /\ FrontCountAfter = config.K

\* The last call popped the front token and it is in stable.
PromotedFront ==
    /\ last.run.batch # <<>> /\ last.run.batch[1] = last.run.tokens[1]
    /\ InCI(last.run.tokens[1], acc._stable)
    /\ acc._metrics.tokens_committed_by_stability > last.pre._metrics.tokens_committed_by_stability
    /\ (acc.pending_tokens = <<>> \/ acc.pending_tokens[1].confirmation_count < config.K)

\* The calls so far are K partials of one non-empty text, less than T apart,
\* in the first segment of a fresh accumulator.
IdenticalPartials ==
    /\ Len(trace) = config.K
    /\ \A i \in DOMAIN trace : trace[i].op = "add_partial" /\ trace[i].text = trace[1].text
    /\ tokenize(trace[1].text) # <<>>
    /\ \A i \in 2..Len(trace) : trace[i].at - trace[i - 1].at < config.T_ms
    /\ acc.segment_id = 0

\* C9: the front token of pending is promoted to stable in the add_partial
\* call in which its confirmation_count reaches K, and K identical partials
\* to a fresh accumulator leave stable equal to the partial's token list.
C9_KConfirmation == (ReachesK => PromotedFront) /\ (IdenticalPartials => acc._stable = tokenize(trace[1].text))

\* The third of three identical partials with K = 3.
C9_Witness == IdenticalPartials /\ ReachesK /\ config.K = 3 /\ acc._stable # <<>>

\* C11: add_final with a text without tokens returns an event with is_final,
\* raises segment_id by one, moves pending whole into one new snapshot and
\* appends to stable nothing but tokens of snapshots that were due.
C11_EmptyFinal ==
    (last.op = "add_final" /\ tokenize(last.text) = <<>>) =>
        /\ last.run.event.is_final
        /\ last.run.event.segment_id = last.pre.segment_id + 1
        /\ acc.segment_id = last.pre.segment_id + 1
        /\ acc.pending_tokens = <<>>
        /\ acc._stable = last.pre._stable \o ExpiredChunk
        /\ IsSubseq(ExpiredChunk, DueTexts)
        /\ last.pre.pending_tokens # <<>> => (acc.awaiting_final # <<>> /\ acc.awaiting_final[Len(acc.awaiting_final)].tokens = last.pre.pending_tokens)
        /\ last.pre.pending_tokens = <<>> => acc.awaiting_final = last.run.expired.awaiting_final

\* An empty final found pending tokens.
C11_Witness == last.op = "add_final" /\ tokenize(last.text) = <<>> /\ last.pre.pending_tokens # <<>> /\ acc.segment_id > 0

\* C12 (I4): when add_partial, add_final or force_segment_break called at now
\* returns, every snapshot in awaiting_final has expiry_ms > now.
C12_SnapshotTTLBound == last.op \in {"add_partial", "add_final", "force_segment_break"} => \A i \in DOMAIN acc.awaiting_final : acc.awaiting_final[i].expiry_ms > last.now

\* A token is within both bounds at now.
Fresh(tok, now) == tok.confirmation_count < config.K /\ now - tok.first_seen_time < config.T_ms

\* C13 (I5): when add_partial, add_final or force_segment_break called at now
\* returns, every token left in pending is within both bounds, and every
\* token the call found in pending outside a bound is in stable.
C13_PendingFreshness ==
    last.op \in {"add_partial", "add_final", "force_segment_break"} =>
        /\ \A i \in DOMAIN acc.pending_tokens : Fresh(acc.pending_tokens[i], last.now)
        /\ \A i \in DOMAIN last.pre.pending_tokens : ~Fresh(last.pre.pending_tokens[i], last.now) => InCI(last.pre.pending_tokens[i].text, acc._stable)

\* The segment has lasted max_segment_ms when the last call is made.
SegmentTimedOut == last.pre.segment_started_ms # None /\ last.now - last.pre.segment_started_ms >= config.max_segment_ms

\* C14 (I6): segment_id grows by exactly one on add_final and on
\* force_segment_break, by one on an add_partial that reaches the segment
\* timeout and by nothing on any other add_partial.
C14_SegmentIdentity ==
    /\ last.op \in {"add_final", "force_segment_break"} => acc.segment_id = last.pre.segment_id + 1
    /\ last.op = "add_partial" => acc.segment_id = last.pre.segment_id + (IF SegmentTimedOut THEN 1 ELSE 0)
    /\ last.op = "add_partial" => acc._metrics.segment_rolls = last.pre._metrics.segment_rolls + (IF SegmentTimedOut THEN 1 ELSE 0)

\* An add_partial reached the segment timeout in a segment a final opened.
C14_Witness == last.op = "add_partial" /\ SegmentTimedOut /\ last.pre.segment_id > 0 /\ acc.segment_id = last.pre.segment_id + 1

\* C17: a front token of pending that has confirmation_count >= K or age >= T
\* when add_final is called is in stable when add_final returns.
C17_PromotionBeforeFinal == (last.op = "add_final" /\ last.pre.pending_tokens # <<>> /\ ~Fresh(last.pre.pending_tokens[1], last.now)) => InCI(last.pre.pending_tokens[1].text, acc._stable)

\* The snapshots of the state before the last call that are due at its now.
DueSnapshots == {i \in DOMAIN last.pre.awaiting_final : last.pre.awaiting_final[i].expiry_ms <= last.now}

\* C19: when add_final reconciles, every snapshot with expiry_ms <= now has
\* left awaiting_final and its tokens are in stable; the candidates, the
\* selected snapshot among them, all have expiry_ms > now.
C19_ExpireBeforeReconcile ==
    last.op = "add_final" =>
        /\ Len(last.run.expired.awaiting_final) = Len(last.pre.awaiting_final) - Cardinality(DueSnapshots)
        /\ \A i \in DOMAIN last.run.expired.awaiting_final : last.run.expired.awaiting_final[i].expiry_ms > last.now
        /\ \A i \in DueSnapshots : AllInCI(texts_of(last.pre.awaiting_final[i].tokens), last.run.expired._stable)
        /\ \A i \in DueSnapshots : \A j \in DOMAIN acc.awaiting_final : acc.awaiting_final[j].segment_id # last.pre.awaiting_final[i].segment_id
        /\ last.run.snap_idx # None => Chosen.expiry_ms > last.now

\* A final arrived exactly at the expiry of a snapshot.
C19_Witness == last.op = "add_final" /\ last.run.tokens # <<>> /\ \E i \in DueSnapshots : last.pre.awaiting_final[i].expiry_ms = last.now

\* C20: with K = 1 every token of a partial is promoted in the same
\* add_partial call and pending is empty when it returns.
C20_KOne ==
    (config.K = 1 /\ last.op = "add_partial") =>
        /\ acc.pending_tokens = <<>>
        /\ last.run.batch = last.run.tokens
        /\ AllInCI(last.run.tokens, acc._stable)
        /\ acc._metrics.tokens_committed_by_stability = last.pre._metrics.tokens_committed_by_stability + Len(last.run.tokens)

\* With K = 1 a partial added tokens to a stable list that held some.
C20_Witness == config.K = 1 /\ last.op = "add_partial" /\ last.pre._stable # <<>> /\ Len(acc._stable) > Len(last.pre._stable)

\* The orphans the last add_final handed to the rescue commit.
FinalOrphans == IF last.run.snap_idx # None THEN Orphans ELSE <<>>

\* What the last call appended to stable.
Appended == Grown(last.pre._stable, acc._stable)

NoDedupCounted == acc._metrics.dedup_full_blocks = 0 /\ acc._metrics.dedup_partial_overlaps = 0 /\ acc._metrics.dedup_tokens_removed = 0

\* C21: with deduplication disabled the three dedup counters stay 0, and a
\* call appends to stable, unchanged and in this order, the texts of the due
\* snapshots, then the promotion batch (add_partial) or the rescued orphans
\* and the final's tokens after the overlap (add_final).
C21_DedupDisabled ==
    ~config.dedup_enabled =>
        /\ NoDedupCounted
        /\ IsPrefix(last.pre._stable, acc._stable) \/ last.op = "reset"
        /\ last.op = "add_partial" => Appended = DueTexts \o last.run.batch
        /\ last.op = "add_final" => Appended = DueTexts \o FinalOrphans \o DropN(last.run.tokens, last.run.m)
        /\ last.op = "force_segment_break" => Appended = <<>>

\* With deduplication disabled a promotion batch was appended to a stable
\* list that already held all its words.
C21_Witness == ~config.dedup_enabled /\ last.op = "add_partial" /\ last.run.batch # <<>> /\ AllInCI(last.run.batch, last.pre._stable) /\ Appended = last.run.batch

\* C22: when reset returns, the accumulator is the object the constructor
\* leaves: stable, pending, awaiting_final and partial_history empty,
\* segment_id 0, segment_started_ms unset, every metrics counter 0.
C22_ResetRestoresInitial == last.op = "reset" => acc = NewAccumulator

\* The event of the last call describes the object the call left.
EventOfState ==
    /\ last.run.event.type = "display"
    /\ last.run.event.stable_text = detokenize(acc._stable)
    /\ last.run.event.partial_suffix = detokenize(texts_of(acc.pending_tokens))
    /\ last.run.event.segment_id = acc.segment_id
    /\ last.run.event.metadata.pending_tokens = Len(acc.pending_tokens)
    /\ last.run.event.metadata.awaiting_snapshots = Len(acc.awaiting_final)
    /\ last.run.event.metadata.stable_word_count = Len(acc._stable)

\* C23: the event add_partial returns has is_final false, the event add_final
\* returns has is_final true, also for an empty final; both describe the
\* state at return, and building the event leaves that state as it is.
C23_DisplayEvent ==
    /\ last.op = "add_partial" => (~last.run.event.is_final /\ EventOfState /\ acc = last.run.acc)
    /\ last.op = "add_final" => (last.run.event.is_final /\ EventOfState /\ acc = last.run.acc)

\* A final returned an event that reports stable words and a snapshot.
C23_Witness == last.op = "add_final" /\ last.run.event.is_final /\ last.run.event.metadata.awaiting_snapshots > 0 /\ last.run.event.metadata.stable_word_count > 0 /\ last.run.event.segment_id = last.pre.segment_id + 1

\* final_tokens[m:] of the last add_final, and what the call appended to
\* stable after expiry and rescue.
FinalSuffix == DropN(last.run.tokens, last.run.m)

FinalContribution == Grown(last.run.after_rescue._stable, acc._stable)

\* The front of final_tokens[m:] that was not appended.
FinalRemoved == FirstN(FinalSuffix, Len(FinalSuffix) - Len(FinalContribution))

\* What was not appended is a duplicate: the whole suffix occurs in stable, or
\* its removed front repeats the end of stable (compared in lower case).
RemovedIsDuplicate ==
    \/ FinalRemoved = <<>>
    \/ FinalContribution = <<>> /\ is_sublist(lower_all(FinalSuffix), lower_all(last.run.after_rescue._stable))
    \/ lower_all(FinalRemoved) = lower_all(LastN(last.run.after_rescue._stable, Len(FinalRemoved)))

\* C24: for a final with tokens, what add_final appends to stable after
\* expiry and rescue is final_tokens[m:] less a front that deduplication
\* removed (all of it on a full duplicate block), nothing at all is removed
\* with deduplication disabled, and tokens_committed_by_final grows by the
\* number of tokens appended.
C24_FinalContribution ==
    (last.op = "add_final" /\ last.run.tokens # <<>>) =>
        /\ IsPrefix(last.run.after_rescue._stable, acc._stable)
        /\ IsSuffix(FinalContribution, FinalSuffix)
        /\ RemovedIsDuplicate
        /\ ~config.dedup_enabled => FinalContribution = FinalSuffix
        /\ acc._metrics.tokens_committed_by_final = last.run.after_rescue._metrics.tokens_committed_by_final + Len(FinalContribution)
        /\ last.run.after_rescue._metrics.tokens_committed_by_final = last.pre._metrics.tokens_committed_by_final + last.run.rescued

\* Deduplication removed the front of a final's suffix, and the rest of it
\* was appended and counted.
C24_Witness == last.op = "add_final" /\ FinalRemoved # <<>> /\ FinalContribution # <<>> /\ FinalContribution = DropN(FinalSuffix, Len(FinalRemoved)) /\ acc._metrics.tokens_committed_by_final > last.pre._metrics.tokens_committed_by_final

\* tok is a token of the text of some add_partial call made so far.
InSomePartial(tok) == \E j \in DOMAIN trace : trace[j].op = "add_partial" /\ \E k \in DOMAIN tokenize(trace[j].text) : tokenize(trace[j].text)[k] = tok

\* C25: every token an add_partial call appends to stable, by promotion or by
\* the expiry of a snapshot, is a token of the text of that call or of an
\* earlier add_partial call.
C25_PartialProvenance == last.op = "add_partial" => (IsPrefix(last.pre._stable, acc._stable) /\ \A i \in DOMAIN Appended : InSomePartial(Appended[i]))

\* An add_partial call appended the tokens of an expired snapshot, which an
\* earlier partial had put in pending.
C25_Witness == last.op = "add_partial" /\ ExpiredChunk # <<>> /\ Appended = ExpiredChunk /\ \A i \in DOMAIN Appended : InSomePartial(Appended[i])

---------------------------------------------------------------------------
\* The end-to-end scenarios of the tests: the default constructor arguments
\* of the test fixture (K=2, T=1.4s, max_segment=12s, TTL=5s) and its clock.

DefaultConfig == [K |-> 2, T_ms |-> 1400, max_segment_ms |-> 12000, awaiting_final_ttl_ms |-> 5000, partial_history_window_ms |-> 30000, dedup_enabled |-> TRUE, dedup_window_size |-> 30]

alpha == <<"a", "l", "p", "h", "a">>

beta == <<"b", "e", "t", "a">>

gamma == <<"g", "a", "m", "m", "a">>

hello == <<"h", "e", "l", "l", "o">>

world == <<"w", "o", "r", "l", "d">>

\* "alpha beta", "beta gamma", "hello world"
ScenarioPartialTexts == {alpha \o <<" ">> \o beta, beta \o <<" ">> \o gamma, hello \o <<" ">> \o world}

\* clk.advance(0.3), and an advance past T
ScenarioSteps == {300, 1600}

MaxScenarioClock == 2000

InitScenario ==
    /\ config = DefaultConfig
    /\ acc = NewAccumulator
    /\ clock = 0
    /\ last = [op |-> "init", text |-> <<>>, now_ms |-> None, now |-> 0, at |-> 0, pre |-> NewAccumulator, run |-> [acc |-> NewAccumulator]]
    /\ trace = <<>>

ScenarioAddPartial == \E text \in ScenarioPartialTexts : CallAllowed(None) /\ AddPartialCall(text, None)

ScenarioTick == \E d \in ScenarioSteps : clock + d <= MaxScenarioClock /\ trace # <<>> /\ Len(trace) < MaxCalls /\ clock' = clock + d /\ UNCHANGED <<config, acc, last, trace>>

NextScenario == ScenarioAddPartial \/ ScenarioTick

SpecScenario == InitScenario /\ [][NextScenario]_vars

\* The front token of pending has reached the age T at the last add_partial.
FrontAged == last.op = "add_partial" /\ last.pre.pending_tokens # <<>> /\ last.now - last.pre.pending_tokens[1].first_seen_time >= config.T_ms

\* Scenario 3: partial "alpha beta" at t=0, partial "beta gamma" at t>=1.6s.
TimeoutScenario ==
    /\ Len(trace) = 2
    /\ trace[1].op = "add_partial" /\ trace[1].text = alpha \o <<" ">> \o beta /\ trace[1].at = 0
    /\ trace[2].op = "add_partial" /\ trace[2].text = beta \o <<" ">> \o gamma /\ trace[2].at >= 1600

\* C8: a front token of pending that has reached the age T is in stable after
\* the next add_partial, and scenario 3 leaves stable = "alpha".
C8_TTimeoutPromotion == (FrontAged => InCI(last.pre.pending_tokens[1].text, acc._stable)) /\ (TimeoutScenario => acc._stable = <<alpha>>)

\* Scenario 2: the first n calls are partials "hello world" spaced 0.3s.
Repeated(n) == Len(trace) = n /\ \A i \in 1..n : trace[i].op = "add_partial" /\ trace[i].text = hello \o <<" ">> \o world /\ trace[i].at = 300 * (i - 1)

\* C10 as stated: after the third partial stable is [hello, world] and
\* pending is empty.
C10_ScenarioTwoEndState == Repeated(3) => (acc._stable = <<hello, world>> /\ acc.pending_tokens = <<>>)

\* C10: after the second partial stable is [hello, world] and pending is
\* empty; after the third stable is still [hello, world], and pending holds
\* hello and world again, each with confirmation_count 1.
C10_ScenarioTwoStable ==
    /\ Repeated(2) => (acc._stable = <<hello, world>> /\ acc.pending_tokens = <<>>)
    /\ Repeated(3) => (acc._stable = <<hello, world>> /\ texts_of(acc.pending_tokens) = <<hello, world>> /\ \A i \in DOMAIN acc.pending_tokens : acc.pending_tokens[i].confirmation_count = 1)

\* The third partial has been applied.
C10_Witness == Repeated(3) /\ acc._stable = <<hello, world>> /\ Len(acc.pending_tokens) = 2

---------------------------------------------------------------------------
\* Reconciliation of finals with stable, snapshots and pending: the default
\* constructor arguments, the words of the boundary-overlap scenario, and
\* calls that all arrive at t=0, so that neither T nor a TTL passes.

foo == <<"f", "o", "o">>

bar == <<"b", "a", "r">>

baz == <<"b", "a", "z">>

qux == <<"q", "u", "x">>

\* "bar baz qux"
BarBazQux == bar \o <<" ">> \o baz \o <<" ">> \o qux

\* "foo bar baz"
FooBarBaz == foo \o <<" ">> \o bar \o <<" ">> \o baz

\* "foo bar baz", "baz qux"
ReconcilePartialTexts == {FooBarBaz, baz \o <<" ">> \o qux}

\* "foo bar baz", "bar baz qux"
ReconcileFinalTexts == {FooBarBaz, BarBazQux}

MaxReconcileCalls == 5

ReconcileAllowed == Len(trace) < MaxReconcileCalls

ReconcilePartial == \E text \in ReconcilePartialTexts : ReconcileAllowed /\ AddPartialCall(text, None)

ReconcileFinal == \E text \in ReconcileFinalTexts : ReconcileAllowed /\ AddFinalCall(text, None)

ReconcileBreak == ReconcileAllowed /\ ForceSegmentBreakCall(None)

NextReconcile == ReconcilePartial \/ ReconcileFinal \/ ReconcileBreak

SpecReconcile == InitScenario /\ [][NextReconcile]_vars

\* The overlap of the final of the last call with the context of snapshot i
\* and with the context without a snapshot, as the expiry step left them.
SnapshotOverlap(i) == _longest_suffix_prefix(st_tail(last.run.expired) \o texts_of(last.run.expired.awaiting_final[i].tokens) \o texts_of(last.run.expired.pending_tokens), last.run.tokens)

NoSnapshotOverlap == _longest_suffix_prefix(st_tail(last.run.expired) \o texts_of(last.run.expired.pending_tokens), last.run.tokens)

\* The snapshots whose overlap no candidate exceeds.
BestSnapshots == {i \in DOMAIN last.run.expired.awaiting_final : SnapshotOverlap(i) >= NoSnapshotOverlap /\ \A j \in DOMAIN last.run.expired.awaiting_final : SnapshotOverlap(j) <= SnapshotOverlap(i)}

\* The newest of them: the deque holds the snapshots oldest first.
NewestBest == CHOOSE i \in BestSnapshots : \A j \in BestSnapshots : j <= i

\* A non-empty final has been reconciled.
Reconciled == last.op = "add_final" /\ last.run.tokens # <<>>

\* The selection when the greatest overlap is at least 1.
TieBreakingAboveZero == (Reconciled /\ last.run.m >= 1) => (IF BestSnapshots = {} THEN last.run.snap_idx = None /\ last.run.m = NoSnapshotOverlap ELSE last.run.snap_idx + 1 = NewestBest /\ last.run.m = SnapshotOverlap(NewestBest))

\* The selection when every candidate has overlap 0.
TieBreakingAtZero == (Reconciled /\ last.run.m = 0 /\ BestSnapshots # {}) => last.run.snap_idx + 1 = NewestBest

\* C18: among the candidates of greatest overlap add_final selects a snapshot
\* before the context without one, and the newest snapshot before an older
\* one, whatever the overlap they tie on.
C18_TieBreaking == TieBreakingAboveZero /\ TieBreakingAtZero

\* The k in [0, min(|ctx|, |final|)] for which the last k tokens of ctx are
\* the first k tokens of the final, compared in lower case, and the largest.
OverlapLengths(ctx, final_tokens) == {k \in 0..Min(Len(ctx), Len(final_tokens)) : lower_all(SubSeq(ctx, Len(ctx) - k + 1, Len(ctx))) = lower_all(SubSeq(final_tokens, 1, k))}

LargestOverlap(ctx, final_tokens) == CHOOSE k \in OverlapLengths(ctx, final_tokens) : \A j \in OverlapLengths(ctx, final_tokens) : j <= k

\* The contexts of the last add_final, as its expiry step left the object:
\* stable[-64:] ++ pending texts, and stable[-64:] ++ S.tokens ++ pending
\* texts for the snapshot S at position i.
ContextWithout == LastN(last.run.expired._stable, max_tail) \o texts_of(last.run.expired.pending_tokens)

ContextWith(i) == LastN(last.run.expired._stable, max_tail) \o texts_of(last.run.expired.awaiting_final[i].tokens) \o texts_of(last.run.expired.pending_tokens)

CandidateOverlaps == {LargestOverlap(ContextWithout, last.run.tokens)} \cup {LargestOverlap(ContextWith(i), last.run.tokens) : i \in DOMAIN last.run.expired.awaiting_final}

MaximumOverlap == CHOOSE m \in CandidateOverlaps : \A j \in CandidateOverlaps : j <= m

\* C30: the overlap m add_final uses is the greatest, over the context
\* without a snapshot and the context of every snapshot, of the largest
\* case-insensitive suffix-prefix overlap of the context with the final.
C30_MaximumOverlap == Reconciled => last.run.m = MaximumOverlap

\* The greatest overlap came from a snapshot that is not the newest, and the
\* context without a snapshot had a smaller one.
C30_Witness == Reconciled /\ last.run.snap_idx # None /\ last.run.snap_idx + 1 < Len(last.run.expired.awaiting_final) /\ last.run.m = MaximumOverlap /\ last.run.m > LargestOverlap(ContextWithout, last.run.tokens) /\ last.run.m > LargestOverlap(ContextWith(Len(last.run.expired.awaiting_final)), last.run.tokens)

\* The last call is add_final("bar baz qux") in a state whose stable ended
\* with foo bar baz.
BoundaryFinal == last.op = "add_final" /\ last.text = BarBazQux /\ Len(last.pre._stable) >= 3 /\ LastN(last.pre._stable, 3) = <<foo, bar, baz>>

\* By how much the last call raised a counter.
Raised(key) == acc._metrics[key] - last.pre._metrics[key]

---------------------------------------------------------------------------
\* Counting one..ten with a late final (test_counting_late_final_rescue):
\* sliding-window partials, each window sent two or three times 0.3s apart,
\* one more partial after the segment has lasted 12s, and a final 3s later.

one == <<"o", "n", "e">>

two == <<"t", "w", "o">>

three == <<"t", "h", "r", "e", "e">>

four == <<"f", "o", "u", "r">>

five == <<"f", "i", "v", "e">>

six == <<"s", "i", "x">>

seven == <<"s", "e", "v", "e", "n">>

eight == <<"e", "i", "g", "h", "t">>

nine == <<"n", "i", "n", "e">>

ten == <<"t", "e", "n">>

count_tokens == <<one, two, three, four, five, six, seven, eight, nine, ten>>

window == 3

\* for _ in range(3), of which the test's comment requires 2
repeats == 3

min_repeats == 2

\* " ".join(words)
RECURSIVE spaced(_)
spaced(words) == IF words = <<>> THEN <<>> ELSE IF Len(words) = 1 THEN words[1] ELSE words[1] \o <<" ">> \o spaced(Tail(words))

\* " ".join(cur[-window:]) once cur holds the first i words
WindowText(i) == spaced(SubSeq(count_tokens, Max(1, i - window + 1), i))

\* "one two three four five six seven eight"
LateFinalText == spaced(SubSeq(count_tokens, 1, 8))

\* How many words have been spoken, and how often the last window was sent.
Spoken == CHOOSE i \in DOMAIN count_tokens : WindowText(i) = trace[Len(trace)].text

Sent == Cardinality({i \in DOMAIN trace : trace[i].text = trace[Len(trace)].text})

\* The time since the last call.
Gap == clock - last.at

\* The last call is the partial sent after the long pause.
StillTalking == Len(trace) >= 2 /\ trace[Len(trace)].at - trace[Len(trace) - 1].at = 2000

Counting == trace # <<>> /\ last.op = "add_partial"

CountingPartial ==
    \/ trace = <<>> /\ AddPartialCall(WindowText(1), None)
    \/ Counting /\ Gap = 300 /\ Sent < repeats /\ AddPartialCall(WindowText(Spoken), None)
    \/ Counting /\ Gap = 500 /\ AddPartialCall(WindowText(Spoken + 1), None)
    \/ Counting /\ Gap = 2000 /\ AddPartialCall(WindowText(Spoken), None)

\* clk.advance(0.3) after a partial, clk.advance(0.2) between words,
\* clk.advance(1.5) after the last word, clk.advance(3.0) before the final.
CountingWait ==
    /\ Counting
    /\ \/ Gap = 0 /\ ~StillTalking /\ clock' = clock + 300
       \/ Gap = 300 /\ Sent >= min_repeats /\ Spoken < Len(count_tokens) /\ clock' = clock + 200
       \/ Gap = 300 /\ Sent >= min_repeats /\ Spoken = Len(count_tokens) /\ clock' = clock + 200 + 1500
       \/ Gap = 0 /\ StillTalking /\ clock' = clock + 3000
    /\ UNCHANGED <<config, acc, last, trace>>

CountingFinal == Counting /\ StillTalking /\ Gap = 3000 /\ AddFinalCall(LateFinalText, None)

NextCounting == CountingPartial \/ CountingWait \/ CountingFinal

SpecCounting == InitScenario /\ [][NextCounting]_vars

\* C15: when the late final of the counting scenario returns, stable is
\* one two three four five six seven eight nine ten, each word once.
C15_CountingLateFinal == last.op = "add_final" => acc._stable = count_tokens

\* Scenario 1 as the test runs it: three partials per word, the partial at
\* t=12.5s rolled the segment, the final arrived at t=15.5s.
C15_Witness == last.op = "add_final" /\ Len(trace) = 32 /\ last.at = 15500 /\ trace[31].at = 12500 /\ last.pre.segment_id = 1 /\ acc._stable = count_tokens

---------------------------------------------------------------------------
\* Two accumulators fed the same partial: one constructed with K = 1 and fed
\* once, then one constructed with a threshold of its own and fed twice, the
\* clock running between its two calls.  last.reference keeps the first
\* accumulator as its call left it.

MaxK == 3

\* "", "a b", "a a", "A a"
TwiceTexts == {<<>>, <<"a", " ", "b">>, <<"a", " ", "a">>, <<"A", " ", "a">>}

InitTwice ==
    /\ config \in {SmallConfig(1, TRUE), SmallConfig(1, FALSE)}
    /\ acc = NewAccumulator
    /\ clock = 0
    /\ last = [op |-> "init", text |-> <<>>, now_ms |-> None, now |-> 0, at |-> 0, pre |-> NewAccumulator, run |-> [acc |-> NewAccumulator], reference |-> NewAccumulator]
    /\ trace = <<>>

TwiceCall(text, reference) ==
    /\ acc' = add_partial(acc, text, None).acc
    /\ last' = [op |-> "add_partial", text |-> text, now_ms |-> None, now |-> clock, at |-> clock, pre |-> acc, run |-> add_partial(acc, text, None), reference |-> reference]
    /\ trace' = Append(trace, [op |-> "add_partial", text |-> text, now |-> clock, at |-> clock])
    /\ UNCHANGED <<config, clock>>

\* The accumulator with K = 1 takes the partial once.
ReferenceOnce == \E text \in TwiceTexts : last.op = "init" /\ TwiceCall(text, add_partial(acc, text, None).acc)

\* TranscriptAccumulator(stability_threshold=k, ...), the other arguments as before.
ConstructCopy == \E k \in 1..MaxK : Len(trace) = 1 /\ last.op = "add_partial" /\ config' = [config EXCEPT !.K = k] /\ acc' = NewAccumulator /\ last' = [last EXCEPT !.op = "__init__", !.pre = NewAccumulator] /\ UNCHANGED <<clock, trace>>

\* The second accumulator takes the same partial, twice.
ApplyTwice == (last.op = "__init__" \/ Len(trace) = 2) /\ TwiceCall(trace[1].text, last.reference)

TwiceTick == Len(trace) = 2 /\ clock < MaxClock /\ clock' = clock + 1 /\ UNCHANGED <<config, acc, last, trace>>

NextTwice == ReferenceOnce \/ ConstructCopy \/ ApplyTwice \/ TwiceTick

SpecTwice == InitTwice /\ [][NextTwice]_vars

\* The second accumulator has taken the partial twice.
AppliedTwice == Len(trace) = 3

\* C26 as stated: for every K >= 1, stable after the partial was applied
\* twice under K is a prefix of stable after it was applied once under K = 1.
C26_RepeatedPartialAnyConfig == AppliedTwice => IsPrefix(acc._stable, last.reference._stable)

\* C26: with deduplication enabled, or with K >= 2, stable after the partial
\* was applied twice under K is a prefix of stable after it was applied once
\* under K = 1; with deduplication disabled and K = 1 it is that list twice.
C26_RepeatedPartial ==
    AppliedTwice =>
        /\ (config.dedup_enabled \/ config.K >= 2) => IsPrefix(acc._stable, last.reference._stable)
        /\ (~config.dedup_enabled /\ config.K = 1) => acc._stable = last.reference._stable \o last.reference._stable
        /\ last.reference._stable = tokenize(last.text)

\* Under K = 1 with deduplication the second application promoted the
\* tokens again and the deduplicator removed them as one block.
C26_Witness == AppliedTwice /\ config.K = 1 /\ config.dedup_enabled /\ last.run.batch # <<>> /\ acc._stable = last.reference._stable /\ acc._metrics.dedup_full_blocks = 1

---------------------------------------------------------------------------
\* Partials that revise each other: they share the first word and differ in
\* the tail, so that an alignment keeps a front part of pending.

\* "a b", "a c", "a b c"
AlignTexts == {<<"a", " ", "b">>, <<"a", " ", "c">>, <<"a", " ", "b", " ", "c">>}

AlignPartial == \E text \in AlignTexts : CallAllowed(None) /\ AddPartialCall(text, None)

NextAlign == AlignPartial \/ Tick

SpecAlign == Init /\ [][NextAlign]_vars

\* The length of the longest common prefix of pending's texts and the
\* partial's tokens in the last call.
Kept == CHOOSE l \in 0..Min(Len(last.pre.pending_tokens), Len(last.run.tokens)) :
            /\ \A i \in 1..l : last.pre.pending_tokens[i].text = last.run.tokens[i]
            /\ l < Min(Len(last.pre.pending_tokens), Len(last.run.tokens)) => last.pre.pending_tokens[l + 1].text # last.run.tokens[l + 1]

\* pending as the alignment step of the last call left it.
Aligned == last.run.aligned.pending_tokens

\* C27: after the alignment step of add_partial(text) the texts of pending
\* are tokenize(text); the tokens of the longest common prefix have their
\* confirmation_count raised by one and keep their first_seen_time, the
\* tokens after it have confirmation_count 1 and first_seen_time now; when
\* the call returns without a segment break, the tokens it popped followed
\* by the texts left in pending are tokenize(text).
C27_AlignAndUpdate ==
    last.op = "add_partial" =>
        /\ last.run.tokens = tokenize(last.text)
        /\ texts_of(Aligned) = last.run.tokens
        /\ \A i \in 1..Kept : Aligned[i].confirmation_count = last.pre.pending_tokens[i].confirmation_count + 1 /\ Aligned[i].first_seen_time = last.pre.pending_tokens[i].first_seen_time
        /\ \A i \in (Kept + 1)..Len(Aligned) : Aligned[i].confirmation_count = 1 /\ Aligned[i].first_seen_time = last.at
        /\ ~SegmentTimedOut => last.run.batch \o texts_of(acc.pending_tokens) = last.run.tokens

\* A partial kept the front of pending and revised its tail.
C27_Witness == last.op = "add_partial" /\ Kept > 0 /\ Kept < Len(last.pre.pending_tokens) /\ Kept < Len(last.run.tokens) /\ ~SegmentTimedOut /\ texts_of(Aligned) = last.run.tokens

\* The token meets the K rule or the T rule at the last call.
Ready(tok) == tok.confirmation_count >= config.K \/ last.at - tok.first_seen_time >= config.T_ms

\* How many tokens the promotion pass of the last call popped.
Popped == Len(last.run.batch)

\* C28: the tokens a promotion pass pops are a prefix of pending, each of
\* them meets the K rule or the T rule, the first token left behind meets
\* neither, and the tokens behind it stay in pending in their order.
C28_LeftmostOnly ==
    last.op = "add_partial" =>
        /\ Popped <= Len(Aligned)
        /\ last.run.batch = texts_of(FirstN(Aligned, Popped))
        /\ \A i \in 1..Popped : Ready(Aligned[i])
        /\ Popped < Len(Aligned) => ~Ready(Aligned[Popped + 1])
        /\ ~SegmentTimedOut => acc.pending_tokens = DropN(Aligned, Popped)
        /\ SegmentTimedOut => (acc.pending_tokens = <<>> /\ (Popped < Len(Aligned) => acc.awaiting_final[Len(acc.awaiting_final)].tokens = DropN(Aligned, Popped)))

\* A pass popped the confirmed front of pending and stopped at a token that
\* was not ready.
C28_Witness == last.op = "add_partial" /\ ~SegmentTimedOut /\ Popped > 0 /\ Popped < Len(Aligned) /\ ~Ready(Aligned[Popped + 1]) /\ acc.pending_tokens = DropN(Aligned, Popped) /\ last.run.promoted > 0

---------------------------------------------------------------------------
\* Partials that carry a clock override: now_ms is given by the caller while
\* time_fn runs on its own.

MaxOverride == 3

\* now_ms left out, or a time in milliseconds
OverrideInputs == {None} \cup 0..MaxOverride

OverridePartial == \E text \in PartialTexts, now_ms \in OverrideInputs : CallAllowed(now_ms) /\ AddPartialCall(text, now_ms)

NextOverride == OverridePartial \/ Tick

SpecOverride == Init /\ [][NextOverride]_vars

\* Two partials with the same first word, the second with a clock override
\* that lies T or more after the now of the first.
OverrideAged ==
    /\ Len(trace) = 2
    /\ trace[1].op = "add_partial" /\ last.op = "add_partial"
    /\ last.now_ms # None
    /\ last.pre.pending_tokens # <<>> /\ last.run.tokens # <<>>
    /\ last.pre.pending_tokens[1].text = last.run.tokens[1]
    /\ last.now - trace[1].now >= config.T_ms

\* C29: a token first seen by a partial at now t0 and still at the front of
\* pending is promoted by a partial whose clock override is >= t0 + T.
C29_ClockOverride == OverrideAged => (last.run.batch # <<>> /\ last.run.batch[1] = last.run.tokens[1] /\ InCI(last.run.tokens[1], acc._stable))

---------------------------------------------------------------------------
\* The deduplicator on its own: a fresh accumulator takes one final, which
\* fills stable (nothing is filtered while stable is empty), and then
\* _deduplicate_before_commit is given a candidate list.

MaxSeed == 4

MaxCandidate == 3

DedupWords == {<<"a">>, <<"A">>, <<"b">>}

\* The lists of 0..n words.
WordLists(n) == UNION {[1..k -> DedupWords] : k \in 0..n}

\* Constructor arguments with a window shorter and one longer than 3 tokens.
DedupConfigs == {[SmallConfig(2, TRUE) EXCEPT !.dedup_window_size = w] : w \in {1, 4}}

InitDedup ==
    /\ config \in DedupConfigs
    /\ acc = NewAccumulator
    /\ clock = 0
    /\ last = [op |-> "init", text |-> <<>>, now_ms |-> None, now |-> 0, at |-> 0, pre |-> NewAccumulator, run |-> [acc |-> NewAccumulator]]
    /\ trace = <<>>

SeedFinal == \E words \in WordLists(MaxSeed) : trace = <<>> /\ AddFinalCall(spaced(words), None)

\* filtered = self._deduplicate_before_commit(cand), for a list with tokens.
DedupCall(cand) ==
    /\ acc' = _deduplicate_before_commit(acc, cand).acc
    /\ Called("_deduplicate_before_commit", spaced(cand), None, [acc |-> _deduplicate_before_commit(acc, cand).acc, candidate |-> cand, filtered |-> _deduplicate_before_commit(acc, cand).tokens])

Deduplicate == \E cand \in WordLists(MaxCandidate) \ {<<>>} : Len(trace) = 1 /\ DedupCall(cand)

NextDedup == SeedFinal \/ Deduplicate

SpecDedup == InitDedup /\ [][NextDedup]_vars

\* The deduplicator was called with stable holding tokens.
Deduplicated == last.op = "_deduplicate_before_commit" /\ last.pre._stable # <<>>

\* recent: the last W = max(dedup_window_size, 3 * |cand|) tokens of stable,
\* and the candidate, both in lower case.
RecentLower == lower_all(SubSeq(last.pre._stable, Max(1, Len(last.pre._stable) - Max(config.dedup_window_size, 3 * Len(last.run.candidate)) + 1), Len(last.pre._stable)))

CandidateLower == lower_all(last.run.candidate)

\* Some contiguous run of recent equals the candidate.
HasRun == \E i \in 1..(Len(RecentLower) - Len(CandidateLower) + 1) : \A j \in DOMAIN CandidateLower : RecentLower[i + j - 1] = CandidateLower[j]

\* The k in [1, min(|cand|, |recent|)] with recent[-k:] = cand[:k].
BoundaryLengths == {k \in 1..Min(Len(CandidateLower), Len(RecentLower)) : \A j \in 1..k : RecentLower[Len(RecentLower) - k + j] = CandidateLower[j]}

LargestBoundary == CHOOSE k \in BoundaryLengths : \A j \in BoundaryLengths : j <= k

C32_BoundaryOverlap ==
    (Deduplicated /\ ~HasRun) =>
        /\ acc._stable = last.pre._stable
        /\ Raised("dedup_full_blocks") = 0
        /\ BoundaryLengths = {} => (last.run.filtered = last.run.candidate /\ Raised("dedup_partial_overlaps") = 0 /\ Raised("dedup_tokens_removed") = 0)
        /\ BoundaryLengths # {} => (last.run.filtered = DropN(last.run.candidate, LargestBoundary) /\ Raised("dedup_partial_overlaps") = 1 /\ Raised("dedup_tokens_removed") = LargestBoundary)

\* The candidate overlaps the end of stable by one token and by two, in
\* different case, and the longer overlap was removed.
C32_Witness == Deduplicated /\ ~HasRun /\ BoundaryLengths = {1, 2} /\ SubSeq(last.run.candidate, 1, 2) # LastN(last.pre._stable, 2) /\ Len(last.run.filtered) = Len(last.run.candidate) - 2 /\ Raised("dedup_tokens_removed") = 2

---------------------------------------------------------------------------
\* The segment timeout and the end of an utterance.

\* The last add_partial rolled the segment.
BreakFired == acc.segment_id = last.pre.segment_id + 1 /\ Raised("segment_rolls") = 1

\* C33: add_partial forces a segment break exactly when now -
\* segment_started_ms >= max_segment_ms; the break shelves what promotion
\* left in pending, empties pending and sets segment_started_ms to now, so
\* that now - segment_started_ms < max_segment_ms whenever add_partial
\* returns.
C33_SegmentTimeout ==
    last.op = "add_partial" =>
        /\ BreakFired <=> SegmentTimedOut
        /\ acc.segment_started_ms # None /\ last.now - acc.segment_started_ms < config.max_segment_ms
        /\ BreakFired => (acc.pending_tokens = <<>> /\ acc.segment_started_ms = last.now)
        /\ (BreakFired /\ Popped < Len(Aligned)) => (Len(acc.awaiting_final) = Len(last.run.expired.awaiting_final) + 1 /\ acc.awaiting_final[Len(acc.awaiting_final)].tokens = DropN(Aligned, Popped))
        /\ (BreakFired /\ Popped = Len(Aligned)) => acc.awaiting_final = last.run.expired.awaiting_final
        /\ ~BreakFired => (acc.segment_id = last.pre.segment_id /\ acc.awaiting_final = last.run.expired.awaiting_final /\ acc.segment_started_ms = (IF last.pre.segment_started_ms = None THEN last.now ELSE last.pre.segment_started_ms))

\* The partial that reached the timeout exactly had its first word promoted
\* and its revised tail shelved.
C33_Witness == last.op = "add_partial" /\ BreakFired /\ last.now - last.pre.segment_started_ms = config.max_segment_ms /\ Popped > 0 /\ Popped < Len(Aligned) /\ acc.pending_tokens = <<>> /\ acc.awaiting_final[Len(acc.awaiting_final)].tokens = DropN(Aligned, Popped)

\* C34: whenever add_final returns, for a text with or without tokens,
\* pending is empty and segment_started_ms is the now of the call.
C34_FinalClosesUtterance == last.op = "add_final" => (acc.pending_tokens = <<>> /\ acc.segment_started_ms = last.now)

\* A final without tokens found tokens in pending, in a segment that had
\* started earlier.
C34_Witness == last.op = "add_final" /\ tokenize(last.text) = <<>> /\ last.pre.pending_tokens # <<>> /\ last.pre.segment_started_ms # None /\ last.pre.segment_started_ms < last.now /\ acc.pending_tokens = <<>> /\ acc.segment_started_ms = last.now

---------------------------------------------------------------------------
\* A late final and what follows it: a partial, a segment break, a final
\* that continues the partial, and the clock running past the TTL.

MaxLateCalls == 4

\* "a b"
LatePartialWords == <<"a", " ", "b">>

\* "b c"
LateFinalWords == <<"b", " ", "c">>

LateAllowed == Len(trace) < MaxLateCalls

LatePartial == LateAllowed /\ AddPartialCall(LatePartialWords, None)

LateFinal == LateAllowed /\ AddFinalCall(LateFinalWords, None)

LateBreak == LateAllowed /\ ForceSegmentBreakCall(None)

LateTick == clock < MaxClock /\ trace # <<>> /\ LateAllowed /\ clock' = clock + 1 /\ UNCHANGED <<config, acc, last, trace>>

NextLate == LatePartial \/ LateFinal \/ LateBreak \/ LateTick

SpecLate == Init /\ [][NextLate]_vars

\* The last add_final selected a snapshot and its overlap reaches into it.
OverlapInSnapshot == last.op = "add_final" /\ last.run.snap_idx # None /\ OrphanCount < Len(Chosen.tokens)

\* The snapshot s of the state before the last call is still in
\* awaiting_final, whole or without a front that was rescued.
StillAwaiting(s) == \E j \in DOMAIN acc.awaiting_final : acc.awaiting_final[j].segment_id = s.segment_id /\ acc.awaiting_final[j].expiry_ms = s.expiry_ms /\ acc.awaiting_final[j].tokens # <<>> /\ IsSuffix(acc.awaiting_final[j].tokens, s.tokens)

\* It was due and the expiry step committed it.
ExpiryCommitted(s) == s.expiry_ms <= last.now /\ AllInCI(texts_of(s.tokens), last.run.expired._stable) /\ \A j \in DOMAIN acc.awaiting_final : acc.awaiting_final[j].segment_id # s.segment_id

\* It was the chosen snapshot and all its tokens were orphans.
WhollyRescued(s) == last.op = "add_final" /\ last.run.snap_idx # None /\ Chosen.segment_id = s.segment_id /\ OrphanCount = Len(Chosen.tokens)

---------------------------------------------------------------------------
\* The order of pending: revising partials under constructor arguments with
\* T = 2, so that tokens first seen at different times wait side by side.

OrderConfigs == {[SmallConfig(k, TRUE) EXCEPT !.T_ms = 2] : k \in {2, 3}}

InitOrder ==
    /\ config \in OrderConfigs
    /\ acc = NewAccumulator
    /\ clock = 0
    /\ last = [op |-> "init", text |-> <<>>, now_ms |-> None, now |-> 0, at |-> 0, pre |-> NewAccumulator, run |-> [acc |-> NewAccumulator]]
    /\ trace = <<>>

SpecOrder == InitOrder /\ [][NextAlign]_vars

\* confirmation_count does not grow and first_seen_time does not fall from
\* the front of the token list to its back.
Ordered(tokens) == \A i, j \in DOMAIN tokens : i < j => (tokens[i].confirmation_count >= tokens[j].confirmation_count /\ tokens[i].first_seen_time <= tokens[j].first_seen_time)

\* C36: in every state pending is ordered by non-increasing
\* confirmation_count and non-decreasing first_seen_time, and so is pending
\* as alignment leaves it; behind the tokens a promotion pass popped no
\* token meets the K rule or the T rule.
C36_PendingOrdered ==
    /\ Ordered(acc.pending_tokens)
    /\ last.op = "add_partial" => (Ordered(Aligned) /\ \A i \in (Popped + 1)..Len(Aligned) : ~Ready(Aligned[i]))

\* pending holds a token confirmed twice and, behind it, a token seen once
\* and later.
C36_Witness == last.op = "add_partial" /\ Len(acc.pending_tokens) = 2 /\ acc.pending_tokens[1].confirmation_count > acc.pending_tokens[2].confirmation_count /\ acc.pending_tokens[1].first_seen_time < acc.pending_tokens[2].first_seen_time

---------------------------------------------------------------------------
\* The T rule under small stability thresholds.

\* Some token the last call found in pending was at least T old.
AgedPending == \E i \in DOMAIN last.pre.pending_tokens : last.at - last.pre.pending_tokens[i].first_seen_time >= config.T_ms

---------------------------------------------------------------------------
\* The snapshots of awaiting_final.

\* C38: every snapshot in awaiting_final holds at least one token.
C38_SnapshotsNonEmpty == \A i \in DOMAIN acc.awaiting_final : acc.awaiting_final[i].tokens # <<>>

\* A final rescued every token of the snapshot it chose, and the snapshot
\* left the queue in that call.
C38_Witness == last.op = "add_final" /\ last.run.snap_idx # None /\ last.run.rescued > 0 /\ Len(acc.awaiting_final) < Len(last.run.expired.awaiting_final)

---------------------------------------------------------------------------
\* The order of awaiting_final: partials and breaks spread over the clock,
\* so that snapshots with different expiry times queue up.

MaxQueueCalls == 5

QueueAllowed == Len(trace) < MaxQueueCalls

QueuePartial == QueueAllowed /\ AddPartialCall(LatePartialWords, None)

QueueFinal == QueueAllowed /\ AddFinalCall(LateFinalWords, None)

QueueBreak == QueueAllowed /\ ForceSegmentBreakCall(None)

QueueTick == clock < MaxClock /\ trace # <<>> /\ QueueAllowed /\ clock' = clock + 1 /\ UNCHANGED <<config, acc, last, trace>>

NextQueue == QueuePartial \/ QueueFinal \/ QueueBreak \/ QueueTick

SpecQueue == Init /\ [][NextQueue]_vars

\* expiry_ms does not fall and segment_id grows from the front of the queue
\* to its back.
QueueOrdered(queue) == \A i, j \in DOMAIN queue : i < j => (queue[i].expiry_ms <= queue[j].expiry_ms /\ queue[i].segment_id < queue[j].segment_id)

\* No snapshot of the queue is due at now.
NoneDue(queue, now) == \A i \in DOMAIN queue : queue[i].expiry_ms > now

\* C39: awaiting_final is ordered by non-decreasing expiry_ms and strictly
\* increasing segment_id, and the expiry step of add_partial and add_final
\* leaves no snapshot with expiry_ms <= now anywhere in the queue.
C39_QueueOrdered ==
    /\ QueueOrdered(acc.awaiting_final)
    /\ last.op \in {"add_partial", "add_final"} => (QueueOrdered(last.run.expired.awaiting_final) /\ NoneDue(last.run.expired.awaiting_final, last.now))

\* The call found two snapshots with different expiry times; its expiry step
\* committed the front one and left the other, which is not due yet.
C39_Witness == last.op \in {"add_partial", "add_final"} /\ Len(last.pre.awaiting_final) = 2 /\ last.pre.awaiting_final[1].expiry_ms < last.pre.awaiting_final[2].expiry_ms /\ last.run.expired.awaiting_final = <<last.pre.awaiting_final[2]>>

---------------------------------------------------------------------------
\* The commit counters against the length of stable.

\* tokens_committed_by_stability + tokens_committed_by_flush +
\* tokens_committed_by_final + snapshot_expired_commits
CommitCounters == acc._metrics.tokens_committed_by_stability + acc._metrics.tokens_committed_by_flush + acc._metrics.tokens_committed_by_final + acc._metrics.snapshot_expired_commits

\* C40: in every state reached without reset the length of stable is at
\* most the sum of the four commit counters, and it is that sum when
\* deduplication is disabled.
C40_CountersBoundStable ==
    NoResetCalled =>
        /\ Len(acc._stable) <= CommitCounters
        /\ ~config.dedup_enabled => Len(acc._stable) = CommitCounters

\* Without a reset and with deduplication enabled, stable is shorter than
\* the counters say: promoted tokens were counted and then filtered, and a
\* final added its suffix.
C40_Witness == NoResetCalled /\ config.dedup_enabled /\ acc._stable # <<>> /\ Len(acc._stable) < CommitCounters /\ acc._metrics.tokens_committed_by_final > 0 /\ acc._metrics.tokens_committed_by_stability > 0

\* Without a reset and with deduplication disabled, promotion and a final
\* both added to stable, and the counters give its length.
C40_Exact == NoResetCalled /\ ~config.dedup_enabled /\ acc._metrics.tokens_committed_by_final > 0 /\ acc._metrics.tokens_committed_by_stability > 0 /\ Len(acc._stable) = CommitCounters

====
